---- MODULE Spec2Model ----
(***************************************************************************)
(* Tutorial engine of vue-nudge (src/composables/useTutorial.ts): step     *)
(* sequencing, the wait-for-action gate, the event bus, the completion     *)
(* store and the timers the engine schedules.                              *)
(*                                                                         *)
(* Every async operation is a coroutine: the synchronous prefix runs in    *)
(* the calling action, and the operation then suspends at `await onExit`,  *)
(* `await nextTick()` or `await onEnter` until a resume action runs it on. *)
(***************************************************************************)
EXTENDS Integers, Sequences, FiniteSets, TLC

\* ---------------------------------------------------------------- bounds
MaxOps == 3     \* host calls in one behaviour
MaxNavOps == 4  \* host calls in one behaviour of navigation alone
MaxBusOps == 4  \* host calls in one behaviour of bus traffic
MaxTwoOps == 4  \* host calls in one behaviour of two instances
MaxDoneOps == 4 \* host calls in one behaviour of the end of a tour
MaxScrollOps == 1 \* scroll decisions in one behaviour
MaxOverlayOps == 4 \* host calls and clicks in one behaviour of the component
MaxTop == 500   \* rect.top of a target lies in -MaxTop..MaxTop
MaxScrollY == 1000 \* window.scrollY is 0 or MaxScrollY

\* ------------------------------------------------------- program constants
SettleDelay == 350   \* setTimeout(updateTargetRect, 350)
ScrollMargin == 150  \* const margin = 150
CenterSlack == 100   \* Math.abs(elementCenter - viewportCenter) > 100

\* ------------------------------------------------------------ environment
NoRect == [top |-> -1, height |-> 0]
RectNear == [top |-> 100, height |-> 50]
RectFar == [top |-> 500, height |-> 50]
Rects == {RectNear, RectFar}
ViewportHeight == 600

\* window.scrollTo({ top, behavior: 'smooth' }): the requested offset, doubled
NoScroll == [issued |-> FALSE, top2 |-> 0]
ScrollTo(top2) == [issued |-> TRUE, top2 |-> top2]
Window(innerHeight, scrollY) ==
  [innerHeight |-> innerHeight, scrollY |-> scrollY, scrollTo |-> NoScroll]

\* ------------------------------------------------------- configurations
NoWait == [declared |-> FALSE, event |-> "", hasTimeout |-> FALSE, timeout |-> 0]
WaitFor(e) == [declared |-> TRUE, event |-> e, hasTimeout |-> FALSE, timeout |-> 0]
WaitForT(e, t) == [declared |-> TRUE, event |-> e, hasTimeout |-> TRUE, timeout |-> t]

NoStep == [id |-> "", target |-> "", placement |-> "", blockInteractions |-> FALSE,
           waitForAction |-> NoWait, allowSkipTo |-> {}, onEnter |-> FALSE,
           onExit |-> FALSE]

Step(id) == [NoStep EXCEPT !.id = id]

\* tour "a": a plain first step with callbacks and a target, a step gated
\* with a timeout that lists the first step in allowSkipTo, a step gated
\* without a timeout.
ConfigA ==
  [id |-> "a", allowClose |-> TRUE, onComplete |-> TRUE, onClose |-> TRUE,
   steps |-> << [Step("s0") EXCEPT !.target = "#t", !.onEnter = TRUE, !.onExit = TRUE],
                [Step("s1") EXCEPT !.waitForAction = WaitForT("e", 2 * SettleDelay),
                                   !.allowSkipTo = {"s0"}],
                [Step("s2") EXCEPT !.waitForAction = WaitFor("e"), !.onEnter = TRUE] >>]

\* tour "b": a first step gated on another event with `timeout: 0`.
ConfigB ==
  [id |-> "b", allowClose |-> FALSE, onComplete |-> FALSE, onClose |-> FALSE,
   steps |-> << [Step("s0") EXCEPT !.waitForAction = WaitForT("f", 0)],
                [Step("s1") EXCEPT !.blockInteractions = TRUE] >>]

\* tour "c": no steps.
ConfigC ==
  [id |-> "c", allowClose |-> TRUE, onComplete |-> FALSE, onClose |-> FALSE,
   steps |-> << >>]

Configs == << ConfigA, ConfigB, ConfigC >>
NoConfig == 0
ConfigIds == 1..Len(Configs)
TutorialIds == {Configs[c].id : c \in ConfigIds}
StepIds == {"s0", "s1", "s2"}
Indices == (-1) .. (Len(ConfigA.steps) - 1)
Actions == {"e", "f"}
Events == {"tutorial:start", "tutorial:complete", "tutorial:close",
           "tutorial:step-change", "tutorial:action-completed"} \cup Actions

\* ------------------------------------------------------------- handlers
\* owner: the engine instance whose closure the handler is, 0 for the host
NoHandler == [kind |-> "none", id |-> 0, event |-> "", owner |-> 0]
WaitHandler(n, e) == [kind |-> "wait", id |-> n, event |-> e, owner |-> 1]

\* functions of the host: one that only listens, one that unsubscribes itself
\* from `event` when invoked, one that throws
Listener == [kind |-> "plain", id |-> 1, event |-> "", owner |-> 0]
OnceListener(e) == [kind |-> "selfOff", id |-> 2, event |-> e, owner |-> 0]
Thrower == [kind |-> "throws", id |-> 3, event |-> "", owner |-> 0]
\* a function of the host that unsubscribes itself from `event` and then calls
\* close() of the instance
Closer(e) == [kind |-> "closes", id |-> 4, event |-> e, owner |-> 0]
BusEvents == {"f", "tutorial:close"}
HostHandlers == {Listener, OnceListener("f"), Thrower}

\* the refs of an instance after useTutorial()
NoInstance ==
  [config |-> NoConfig, currentStepIndex |-> -1, isActive |-> FALSE,
   isWaitingForAction |-> FALSE, targetRect |-> NoRect,
   currentActionHandler |-> NoHandler, released |-> FALSE]

VARIABLES
  config,               \* ref<TutorialConfig | null>: 0 or an index of Configs
  currentStepIndex,     \* ref(-1)
  isActive,             \* ref(false)
  isWaitingForAction,   \* ref(false)
  targetRect,           \* ref<DOMRect | null>
  currentActionHandler, \* { event, handler } | null
  eventBus,             \* Map<string, Set<Function>>, sets in insertion order
  storage,              \* localStorage: ids whose completed key holds 'true'
  timers,               \* pending setTimeout callbacks, in registration order
  inflight,             \* suspended async operations
  dom,                  \* bounding box of the element matching "#t", or NoRect
  window,               \* innerHeight, scrollY, and the scrollTo of the last action
  emitted,              \* events published by the last action
  called,               \* callbacks invoked by the last action
  lastOp,               \* the last action taken
  released,             \* history: the current step's gate event was published
                        \* or its own timer fired since the index was assigned
  invoked,              \* handlers invoked by the last action, with their data
  removed,              \* history: host subscriptions removed by off and not
                        \* registered again since
  other,                \* the refs of a second useTutorial() instance
  ops                   \* host calls left in this behaviour

vars == << config, currentStepIndex, isActive, isWaitingForAction, targetRect,
           currentActionHandler, eventBus, storage, timers, inflight, dom,
           window, emitted, called, lastOp, released, invoked, removed, other, ops >>

\* The engine state as one value, so that the synchronous code of an
\* operation is a composition of functions on it.
Engine ==
  [config |-> config, currentStepIndex |-> currentStepIndex, isActive |-> isActive,
   isWaitingForAction |-> isWaitingForAction, targetRect |-> targetRect,
   currentActionHandler |-> currentActionHandler, eventBus |-> eventBus,
   storage |-> storage, timers |-> timers, dom |-> dom,
   window |-> [window EXCEPT !.scrollTo = NoScroll],
   emitted |-> << >>, called |-> << >>, released |-> released,
   invoked |-> << >>, removed |-> removed, thrown |-> FALSE,
   other |-> other, self |-> 1]

\* the refs and the closure variable one call of useTutorial() creates
Private(s) ==
  [config |-> s.config, currentStepIndex |-> s.currentStepIndex, isActive |-> s.isActive,
   isWaitingForAction |-> s.isWaitingForAction, targetRect |-> s.targetRect,
   currentActionHandler |-> s.currentActionHandler, released |-> s.released]

\* the same state seen from the other instance: the bus, the store, the
\* timers and the document are shared, the refs are not
Swap(s) ==
  [s EXCEPT !.config = s.other.config, !.currentStepIndex = s.other.currentStepIndex,
            !.isActive = s.other.isActive,
            !.isWaitingForAction = s.other.isWaitingForAction,
            !.targetRect = s.other.targetRect,
            !.currentActionHandler = s.other.currentActionHandler,
            !.released = s.other.released,
            !.other = Private(s), !.self = 3 - s.self]

Of(inst) == IF inst = 1 THEN Engine ELSE Swap(Engine)

\* (the state is bound by \E over a singleton so that it is computed once)
Commit(s) ==
  \E b \in {IF s.self = 1 THEN s ELSE Swap(s)} :
     /\ config' = b.config
     /\ currentStepIndex' = b.currentStepIndex
     /\ isActive' = b.isActive
     /\ isWaitingForAction' = b.isWaitingForAction
     /\ targetRect' = b.targetRect
     /\ currentActionHandler' = b.currentActionHandler
     /\ eventBus' = b.eventBus
     /\ storage' = b.storage
     /\ timers' = b.timers
     /\ dom' = b.dom
     /\ window' = b.window
     /\ emitted' = b.emitted
     /\ called' = b.called
     /\ released' = b.released
     /\ invoked' = b.invoked
     /\ removed' = b.removed
     /\ other' = b.other

\* ------------------------------------------------------- derived values
stepsOf(c) == IF c = NoConfig THEN << >> ELSE Configs[c].steps

stepAt(c, index) ==
  IF index >= 0 /\ index < Len(stepsOf(c)) THEN stepsOf(c)[index + 1] ELSE NoStep

currentStepOf(s) ==
  IF s.config = NoConfig \/ s.currentStepIndex < 0 THEN NoStep
  ELSE stepAt(s.config, s.currentStepIndex)

totalStepsOf(s) == Len(stepsOf(s.config))

\* mutant: the gate is forgotten
canGoNextIgnoringGate(s) == s.currentStepIndex < totalStepsOf(s) - 1

canGoNextOf(s) ==
  IF s.isWaitingForAction THEN FALSE
  ELSE s.currentStepIndex < totalStepsOf(s) - 1

canGoPreviousOf(s) == s.currentStepIndex > 0

\* progress as the exact fraction num / den of ((index + 1) / totalSteps) * 100;
\* the rounding of the double division cannot carry a value across 0 or 100
progressOf(s) ==
  IF totalStepsOf(s) = 0 THEN [num |-> 0, den |-> 1]
  ELSE [num |-> (s.currentStepIndex + 1) * 100, den |-> totalStepsOf(s)]

currentStep == currentStepOf(Engine)
progress == progressOf(Engine)
totalSteps == totalStepsOf(Engine)
canGoNext == canGoNextOf(Engine)
canGoPrevious == canGoPreviousOf(Engine)

\* mutant: the position is counted from 1
findIndexFromOne(c, stepId) ==
  LET hits == {i \in 0..(Len(stepsOf(c)) - 1) : stepAt(c, i).id = stepId}
  IN IF hits = {} THEN -1 ELSE 1 + CHOOSE i \in hits : \A j \in hits : i <= j

findIndex(c, stepId) ==
  LET hits == {i \in 0..(Len(stepsOf(c)) - 1) : stepAt(c, i).id = stepId}
  IN IF hits = {} THEN -1 ELSE CHOOSE i \in hits : \A j \in hits : i <= j

\* ------------------------------------------------------------ event bus
Publication(event, name, c, index) ==
  [event |-> event, name |-> name, config |-> c, index |-> index]

Callback(cb, c, index) == [cb |-> cb, config |-> c, index |-> index]

Registered(bus, event, h) == \E i \in 1..Len(bus[event]) : bus[event][i] = h

Subscription(event, handler) == [event |-> event, handler |-> handler]

\* mutant: the set keeps duplicates
onAgain(s, event, handler) ==
  [s EXCEPT !.eventBus[event] = Append(@, handler),
            !.removed = @ \ {Subscription(event, handler)}]

on(s, event, handler) ==
  IF Registered(s.eventBus, event, handler) THEN s
  ELSE [s EXCEPT !.eventBus[event] = Append(@, handler),
                 !.removed = @ \ {Subscription(event, handler)}]

\* mutant: the handler stays in the set
offKeeping(s, event, handler) ==
  [s EXCEPT !.removed = IF handler.kind # "wait" /\ Registered(s.eventBus, event, handler)
                        THEN @ \cup {Subscription(event, handler)} ELSE @]

off(s, event, handler) ==
  [s EXCEPT !.eventBus[event] = SelectSeq(@, LAMBDA h : h # handler),
            !.removed = IF handler.kind # "wait" /\ Registered(s.eventBus, event, handler)
                        THEN @ \cup {Subscription(event, handler)} ELSE @]

RECURSIVE emit(_, _, _), forEachHandler(_, _, _, _), actionHandler(_, _), call(_, _, _)
RECURSIVE close(_)

Invocation(handler, data) == [handler |-> handler, data |-> data]

\* handlers.forEach(handler => handler(data)): insertion order, a handler
\* deleted before its turn is not visited, one added meanwhile is; a handler
\* that throws ends the loop and the exception leaves emit.
forEachHandler(s, event, data, visited) ==
  LET pending == SelectSeq(s.eventBus[event], LAMBDA h : h \notin visited)
  IN IF s.thrown \/ pending = << >> THEN s
     ELSE forEachHandler(call(s, Head(pending), data), event, data,
                         visited \cup {Head(pending)})

\* handler(data)
call(s, h, data) ==
  LET s1 == [s EXCEPT !.invoked = Append(@, Invocation(h, data))]
  IN IF h.kind = "wait" THEN actionHandler(s1, h)
     ELSE IF h.kind = "selfOff" THEN off(s1, h.event, h)
     ELSE IF h.kind = "throws" THEN [s1 EXCEPT !.thrown = TRUE]
     ELSE IF h.kind = "closes" THEN close(off(s1, h.event, h))
     ELSE s1

emit(s, event, data) ==
  forEachHandler([s EXCEPT !.emitted = Append(@, data)], event, data, {})

\* const handler = () => { ... } of setupActionListener
actionHandler(s, h) ==
  IF h.kind # "wait" THEN s
  ELSE IF h.owner # s.self THEN Swap(actionHandler(Swap(s), h))
  ELSE LET s1 == [s EXCEPT !.isWaitingForAction = FALSE]
           s2 == emit(s1, "tutorial:action-completed",
                      Publication("tutorial:action-completed", h.event, 0, -1))
           s3 == off(s2, h.event, h)
       IN IF s2.thrown THEN s2
          ELSE [s3 EXCEPT !.currentActionHandler = NoHandler]

\* ---------------------------------------------------------------- timers
WaitTimer(h, t) == [kind |-> "wait", handler |-> h, remaining |-> t, owner |-> 1]
RectTimer(t) == [kind |-> "rect", handler |-> NoHandler, remaining |-> t, owner |-> 1]

\* the callback closes over the state of the instance that scheduled it
setTimeout(s, timer) == [s EXCEPT !.timers = Append(@, [timer EXCEPT !.owner = s.self])]

WaitHandlersIn(bus) ==
  UNION {{bus[e][i] : i \in 1..Len(bus[e])} : e \in Events}

\* a closure not identical to any closure still referenced
FreshHandler(s, e) ==
  LET used == {h.id : h \in {g \in WaitHandlersIn(s.eventBus) : g.kind = "wait"}} \cup
              {s.timers[i].handler.id : i \in 1..Len(s.timers)} \cup
              {s.currentActionHandler.id, s.other.currentActionHandler.id}
      n == CHOOSE k \in 1..(Cardinality(used) + 1) :
             k \notin used /\ \A j \in 1..(k - 1) : j \in used
  IN [WaitHandler(n, e) EXCEPT !.owner = s.self]

setupActionListener(s, eventName, timeout) ==
  LET handler == FreshHandler(s, eventName)
      s1 == on(s, eventName, handler)
      s2 == [s1 EXCEPT !.currentActionHandler = handler]
  IN IF timeout # 0 THEN setTimeout(s2, WaitTimer(handler, timeout)) ELSE s2

\* mutant: the still-waiting test is inverted
actionTimeoutInverted(s, handler) ==
  IF ~s.isWaitingForAction
  THEN [off([s EXCEPT !.isWaitingForAction = FALSE], handler.event, handler)
          EXCEPT !.currentActionHandler = NoHandler]
  ELSE s

\* the callback of setupActionListener's setTimeout
actionTimeout(s, handler) ==
  IF s.isWaitingForAction
  THEN [off([s EXCEPT !.isWaitingForAction = FALSE], handler.event, handler)
          EXCEPT !.currentActionHandler = NoHandler]
  ELSE s

\* ------------------------------------------------------ target rectangle
querySelector(s, selector) == IF selector = "#t" THEN s.dom ELSE NoRect

\* mutant: the cached rectangle is kept when the selector matches no element
updateTargetRectKeeping(s) ==
  IF currentStepOf(s).target = "" THEN [s EXCEPT !.targetRect = NoRect]
  ELSE IF querySelector(s, currentStepOf(s).target) = NoRect THEN s
  ELSE [s EXCEPT !.targetRect = querySelector(s, currentStepOf(s).target)]

updateTargetRect(s) ==
  IF currentStepOf(s).target = "" THEN [s EXCEPT !.targetRect = NoRect]
  ELSE [s EXCEPT !.targetRect = querySelector(s, currentStepOf(s).target)]

Abs(x) == IF x < 0 THEN -x ELSE x

\* the scroll decision of scrollElementIntoView; all quantities doubled where
\* the code halves, so that the arithmetic stays in the integers
\* mutant: the margins are inclusive
scrollDecisionInclusive(rect, placement, viewportHeight, scrollY) ==
  LET bottom == rect.top + rect.height
      elementCenter2 == 2 * rect.top + rect.height
      viewportCenter2 == viewportHeight
  IN IF placement = "top"
     THEN IF rect.top <= ScrollMargin
          THEN [needsScroll |-> TRUE, targetScrollY2 |-> 2 * (scrollY + rect.top - ScrollMargin)]
          ELSE [needsScroll |-> FALSE, targetScrollY2 |-> 2 * scrollY]
     ELSE IF placement = "bottom"
     THEN IF bottom >= viewportHeight - ScrollMargin
          THEN [needsScroll |-> TRUE,
                targetScrollY2 |-> 2 * (scrollY + (bottom - viewportHeight + ScrollMargin))]
          ELSE [needsScroll |-> FALSE, targetScrollY2 |-> 2 * scrollY]
     ELSE IF placement = "left" \/ placement = "right"
     THEN IF Abs(elementCenter2 - viewportCenter2) >= 2 * CenterSlack
          THEN [needsScroll |-> TRUE,
                targetScrollY2 |-> 2 * scrollY + (elementCenter2 - viewportCenter2)]
          ELSE [needsScroll |-> FALSE, targetScrollY2 |-> 2 * scrollY]
     ELSE [needsScroll |-> FALSE, targetScrollY2 |-> 2 * scrollY]

scrollDecision(rect, placement, viewportHeight, scrollY) ==
  LET bottom == rect.top + rect.height
      elementCenter2 == 2 * rect.top + rect.height
      viewportCenter2 == viewportHeight
  IN IF placement = "top"
     THEN IF rect.top < ScrollMargin
          THEN [needsScroll |-> TRUE, targetScrollY2 |-> 2 * (scrollY + rect.top - ScrollMargin)]
          ELSE [needsScroll |-> FALSE, targetScrollY2 |-> 2 * scrollY]
     ELSE IF placement = "bottom"
     THEN IF bottom > viewportHeight - ScrollMargin
          THEN [needsScroll |-> TRUE,
                targetScrollY2 |-> 2 * (scrollY + (bottom - viewportHeight + ScrollMargin))]
          ELSE [needsScroll |-> FALSE, targetScrollY2 |-> 2 * scrollY]
     ELSE IF placement = "left" \/ placement = "right"
     THEN IF Abs(elementCenter2 - viewportCenter2) > 2 * CenterSlack
          THEN [needsScroll |-> TRUE,
                targetScrollY2 |-> 2 * scrollY + (elementCenter2 - viewportCenter2)]
          ELSE [needsScroll |-> FALSE, targetScrollY2 |-> 2 * scrollY]
     ELSE [needsScroll |-> FALSE, targetScrollY2 |-> 2 * scrollY]

scrollElementIntoView(s, rect, placement) ==
  LET d == scrollDecision(rect, placement, s.window.innerHeight, s.window.scrollY)
  IN IF d.needsScroll
     THEN setTimeout([s EXCEPT !.window.scrollTo = ScrollTo(d.targetScrollY2)],
                     RectTimer(SettleDelay))
     ELSE s

\* ------------------------------------------------------- close, complete
close(s) ==
  IF s.config = NoConfig THEN s
  ELSE LET h == s.currentActionHandler
           s1 == IF h # NoHandler
                 THEN [off(s, h.event, h) EXCEPT !.currentActionHandler = NoHandler]
                 ELSE s
           s2 == emit(s1, "tutorial:close", Publication("tutorial:close", "", 0, -1))
           s3 == IF s2.config # NoConfig /\ Configs[s2.config].onClose
                 THEN [s2 EXCEPT !.called = Append(@, Callback("onClose", s2.config, -1))]
                 ELSE s2
       IN IF s2.thrown THEN s2
          \* config.value.onClose on a config a subscriber has set to null
          ELSE IF s2.config = NoConfig THEN [s2 EXCEPT !.thrown = TRUE]
          ELSE [s3 EXCEPT !.isActive = FALSE, !.currentStepIndex = -1, !.config = NoConfig,
                          !.targetRect = NoRect, !.isWaitingForAction = FALSE]

setItem(s, id) == [s EXCEPT !.storage = @ \cup {id}]
removeItem(s, id) == [s EXCEPT !.storage = @ \ {id}]
isCompleted(s, tutorialId) == tutorialId \in s.storage
resetCompletion(s, tutorialId) == removeItem(s, tutorialId)

\* mutant: onComplete is invoked before tutorial:complete is published
completeCallbackFirst(s) ==
  IF s.config = NoConfig THEN s
  ELSE LET s1 == setItem(s, Configs[s.config].id)
           s2 == IF Configs[s1.config].onComplete
                 THEN [s1 EXCEPT !.called = Append(@, Callback("onComplete", s1.config, -1))]
                 ELSE s1
           s3 == emit(s2, "tutorial:complete", Publication("tutorial:complete", "", 0, -1))
       IN IF s3.thrown THEN s3
          ELSE IF s3.config = NoConfig THEN [s3 EXCEPT !.thrown = TRUE]
          ELSE close(s3)

\* mutant: the completed flag is not written
completeUnrecorded(s) ==
  IF s.config = NoConfig THEN s
  ELSE LET s2 == emit(s, "tutorial:complete", Publication("tutorial:complete", "", 0, -1))
           s3 == IF s2.config # NoConfig /\ Configs[s2.config].onComplete
                 THEN [s2 EXCEPT !.called = Append(@, Callback("onComplete", s2.config, -1))]
                 ELSE s2
       IN IF s2.thrown THEN s2
          ELSE IF s2.config = NoConfig THEN [s2 EXCEPT !.thrown = TRUE]
          ELSE close(s3)

complete(s) ==
  IF s.config = NoConfig THEN s
  ELSE LET s1 == setItem(s, Configs[s.config].id)
           s2 == emit(s1, "tutorial:complete", Publication("tutorial:complete", "", 0, -1))
           s3 == IF s2.config # NoConfig /\ Configs[s2.config].onComplete
                 THEN [s2 EXCEPT !.called = Append(@, Callback("onComplete", s2.config, -1))]
                 ELSE s2
       IN IF s2.thrown THEN s2
          \* config.value.onComplete on a config a subscriber has set to null
          ELSE IF s2.config = NoConfig THEN [s2 EXCEPT !.thrown = TRUE]
          ELSE close(s3)

triggerAction(s, actionName) == emit(s, actionName, Publication(actionName, "", 0, -1))

\* ------------------------------------------------------------- goToStep
\* One suspended goToStep: whether start or a navigation call made it, the
\* index and the step (config, index) it captured, and the await it is
\* suspended at.  alone/calls are history: whether no other host call has run
\* since the call, and the step callbacks it invoked.
Coroutine(caller, c, index, pc, calls) ==
  [caller |-> caller, config |-> c, index |-> index, pc |-> pc,
   alone |-> inflight = << >>, calls |-> calls, inst |-> 1]

\* currentStepIndex.value = index; isWaitingForAction.value = false
goToStepAssign(s, index) ==
  [s EXCEPT !.currentStepIndex = index, !.isWaitingForAction = FALSE,
            !.released = FALSE]

\* mutant: the cleanup of the recorded subscription precedes the two checks
goToStepCleanupFirst(s, index) ==
  LET h == s.currentActionHandler
      s1 == IF h # NoHandler
            THEN [off(s, h.event, h) EXCEPT !.currentActionHandler = NoHandler]
            ELSE s
  IN IF s.config = NoConfig THEN [s |-> s1, pc |-> "return"]
     ELSE IF stepAt(s.config, index) = NoStep THEN [s |-> s1, pc |-> "return"]
     ELSE IF currentStepOf(s1).onExit
          THEN [s |-> [s1 EXCEPT !.called =
                          Append(@, Callback("onExit", s1.config, s1.currentStepIndex))],
                pc |-> "onExit"]
          ELSE [s |-> goToStepAssign(s1, index), pc |-> "tick"]

\* mutant: the index is assigned before onExit is awaited
goToStepAssignFirst(s, index) ==
  IF s.config = NoConfig THEN [s |-> s, pc |-> "return"]
  ELSE IF stepAt(s.config, index) = NoStep THEN [s |-> s, pc |-> "return"]
  ELSE LET h == s.currentActionHandler
           s1 == IF h # NoHandler
                 THEN [off(s, h.event, h) EXCEPT !.currentActionHandler = NoHandler]
                 ELSE s
       IN IF currentStepOf(s1).onExit
          THEN [s |-> [goToStepAssign(s1, index) EXCEPT !.called =
                          Append(@, Callback("onExit", s1.config, s1.currentStepIndex))],
                pc |-> "onExit"]
          ELSE [s |-> goToStepAssign(s1, index), pc |-> "tick"]

\* goToStep up to its first await: pc is "return" when it returned early
goToStepBegin(s, index) ==
  IF s.config = NoConfig THEN [s |-> s, pc |-> "return"]
  ELSE IF stepAt(s.config, index) = NoStep THEN [s |-> s, pc |-> "return"]
  ELSE LET h == s.currentActionHandler
           s1 == IF h # NoHandler
                 THEN [off(s, h.event, h) EXCEPT !.currentActionHandler = NoHandler]
                 ELSE s
       IN IF currentStepOf(s1).onExit
          THEN [s |-> [s1 EXCEPT !.called =
                          Append(@, Callback("onExit", s1.config, s1.currentStepIndex))],
                pc |-> "onExit"]
          ELSE [s |-> goToStepAssign(s1, index), pc |-> "tick"]

\* `if (step.target) { ... scrollElementIntoView(element, step.placement || 'bottom') }`
scrollTarget(s, step) ==
  LET element == querySelector(s, step.target)
  IN IF step.target # "" /\ element # NoRect
     THEN scrollElementIntoView(s, element,
                                IF step.placement = "" THEN "bottom" ELSE step.placement)
     ELSE s

\* goToStep after `await nextTick()` up to `await step.onEnter()`
goToStepMeasure(s, c, index) == scrollTarget(updateTargetRect(s), stepAt(c, index))

\* goToStep after onEnter: the gate and the step-change publication
goToStepFinish(s, c, index) ==
  LET step == stepAt(c, index)
      s1 == IF step.waitForAction.declared
            THEN setupActionListener([s EXCEPT !.isWaitingForAction = TRUE],
                                     step.waitForAction.event, step.waitForAction.timeout)
            ELSE s
  IN emit(s1, "tutorial:step-change", Publication("tutorial:step-change", "", c, index))

\* mutant: the active flag is not raised
startInactive(s, c) ==
  LET s1 == [s EXCEPT !.config = c, !.currentStepIndex = 0, !.released = FALSE]
      s2 == emit(s1, "tutorial:start", Publication("tutorial:start", "", 0, -1))
  IN IF s2.thrown THEN [s |-> s2, pc |-> "return"] ELSE goToStepBegin(s2, 0)

\* start up to the first await of its goToStep(0)
start(s, c) ==
  LET s1 == [s EXCEPT !.config = c, !.currentStepIndex = 0, !.isActive = TRUE,
                      !.released = FALSE]
      s2 == emit(s1, "tutorial:start", Publication("tutorial:start", "", 0, -1))
  IN IF s2.thrown THEN [s |-> s2, pc |-> "return"] ELSE goToStepBegin(s2, 0)

nextIndex(s) == s.currentStepIndex + 1
previousIndex(s) == s.currentStepIndex - 1

next(s) ==
  IF ~canGoNextOf(s) THEN [s |-> s, pc |-> "return"]
  ELSE goToStepBegin(s, nextIndex(s))

previous(s) ==
  IF ~canGoPreviousOf(s) THEN [s |-> s, pc |-> "return"]
  ELSE goToStepBegin(s, previousIndex(s))

\* mutant: only the ids listed in the current step's allowSkipTo are accepted
skipToListedOnly(s, stepId) ==
  IF s.config = NoConfig THEN [s |-> s, pc |-> "return"]
  ELSE IF findIndex(s.config, stepId) >= 0 /\ stepId \in currentStepOf(s).allowSkipTo
       THEN goToStepBegin(s, findIndex(s.config, stepId))
       ELSE [s |-> s, pc |-> "return"]

skipTo(s, stepId) ==
  IF s.config = NoConfig THEN [s |-> s, pc |-> "return"]
  ELSE IF findIndex(s.config, stepId) >= 0
       THEN goToStepBegin(s, findIndex(s.config, stepId))
       ELSE [s |-> s, pc |-> "return"]

\* -------------------------------------------------------------- actions
Op(op) ==
  [op |-> op, of |-> "", config |-> NoConfig, index |-> -1, name |-> "",
   from |-> -1, alone |-> FALSE, calls |-> << >>, returned |-> FALSE,
   threw |-> FALSE, handler |-> NoHandler, registered |-> FALSE, inst |-> 1,
   waiting |-> FALSE, prop |-> NoConfig]

\* a host call ends the solitude of every suspended operation
Interleave(cos) == [i \in 1..Len(cos) |-> [cos[i] EXCEPT !.alone = FALSE]]

RemoveAt(seq, i) == SubSeq(seq, 1, i - 1) \o SubSeq(seq, i + 1, Len(seq))

\* the host calls an async operation: it runs to its first await
AsyncCall(kind, r, index, name) ==
  /\ ops > 0
  /\ Commit(r.s)
  /\ inflight' = IF r.pc = "return" THEN Interleave(inflight)
                 ELSE Append(Interleave(inflight),
                             Coroutine(IF kind = "start" THEN "start" ELSE "goToStep",
                                       r.s.config, index, r.pc, r.s.called))
  /\ lastOp' = [Op(kind) EXCEPT !.config = r.s.config, !.index = index, !.name = name,
                                !.from = currentStepIndex, !.returned = (r.pc = "return"),
                                !.threw = r.s.thrown, !.waiting = isWaitingForAction]
  /\ ops' = ops - 1

\* the host calls a synchronous operation
SyncCall(op, s, name) ==
  /\ ops > 0
  /\ Commit(s)
  /\ inflight' = Interleave(inflight)
  /\ lastOp' = [Op(op) EXCEPT !.name = name, !.config = config, !.from = currentStepIndex,
                              !.threw = s.thrown]
  /\ ops' = ops - 1

CallStart(c) == AsyncCall("start", start(Engine, c), 0, Configs[c].id)

CallNext == AsyncCall("next", next(Engine), nextIndex(Engine), "")

CallPrevious == AsyncCall("previous", previous(Engine), previousIndex(Engine), "")

CallSkipTo(stepId) ==
  AsyncCall("skipTo", skipTo(Engine, stepId), findIndex(config, stepId), stepId)

CallGoToStep(index) == AsyncCall("goToStep", goToStepBegin(Engine, index), index, "")

CallClose == SyncCall("close", close(Engine), "")

CallComplete == SyncCall("complete", complete(Engine), "")

CallTriggerAction(actionName) ==
  LET s == triggerAction(Engine, actionName)
      gate == currentStep.waitForAction
  IN SyncCall("triggerAction",
              IF gate.declared /\ gate.event = actionName
              THEN [s EXCEPT !.released = TRUE] ELSE s,
              actionName)

CallResetCompletion(tutorialId) ==
  SyncCall("resetCompletion", resetCompletion(Engine, tutorialId), tutorialId)

\* the host calls on or off with one of its functions
BusCall(op, s, event, handler) ==
  /\ ops > 0
  /\ Commit(s)
  /\ inflight' = Interleave(inflight)
  /\ lastOp' = [Op(op) EXCEPT !.name = event, !.config = config, !.from = currentStepIndex,
                              !.threw = s.thrown, !.handler = handler,
                              !.registered = Registered(eventBus, event, handler)]
  /\ ops' = ops - 1

CallOn(event, handler) == BusCall("on", on(Engine, event, handler), event, handler)

CallOff(event, handler) == BusCall("off", off(Engine, event, handler), event, handler)

CallEmit(event) ==
  LET s == emit(Engine, event, Publication(event, "", 0, -1))
      gate == currentStep.waitForAction
  IN SyncCall("emit",
              IF gate.declared /\ gate.event = event
              THEN [s EXCEPT !.released = TRUE] ELSE s,
              event)

\* ---- calls through either of two instances
Instances == {1, 2}

\* tours whose first step is gated, and the events they wait for
GatedConfigs == {c \in ConfigIds : stepAt(c, 0).waitForAction.declared}
GateEvents == {stepAt(c, 0).waitForAction.event : c \in GatedConfigs}

\* history: the publication of `event` releases the gate of each instance
\* whose current step waits for it
Release(s, event) ==
  LET mine == currentStepOf(s).waitForAction
      theirs == currentStepOf(Swap(s)).waitForAction
      s1 == IF mine.declared /\ mine.event = event THEN [s EXCEPT !.released = TRUE] ELSE s
  IN IF theirs.declared /\ theirs.event = event
     THEN [s1 EXCEPT !.other.released = TRUE] ELSE s1

\* the host calls a synchronous operation of instance inst
CallVia(inst, op, s, name, handler) ==
  /\ ops > 0
  /\ Commit(s)
  /\ inflight' = Interleave(inflight)
  /\ lastOp' = [Op(op) EXCEPT !.name = name, !.config = Of(inst).config,
                              !.from = Of(inst).currentStepIndex, !.threw = s.thrown,
                              !.handler = handler, !.inst = inst,
                              !.registered = (name \in Events
                                              /\ Registered(eventBus, name, handler))]
  /\ ops' = ops - 1

StartVia(inst, c) ==
  LET r == start(Of(inst), c)
  IN /\ ops > 0
     /\ Commit(r.s)
     /\ inflight' = IF r.pc = "return" THEN Interleave(inflight)
                    ELSE Append(Interleave(inflight),
                                [Coroutine("start", r.s.config, 0, r.pc, r.s.called)
                                   EXCEPT !.inst = inst])
     /\ lastOp' = [Op("start") EXCEPT !.config = r.s.config, !.index = 0,
                                      !.name = Configs[c].id,
                                      !.from = Of(inst).currentStepIndex,
                                      !.returned = (r.pc = "return"),
                                      !.threw = r.s.thrown, !.inst = inst]
     /\ ops' = ops - 1

CloseVia(inst) == CallVia(inst, "close", close(Of(inst)), "", NoHandler)

CompleteVia(inst) == CallVia(inst, "complete", complete(Of(inst)), "", NoHandler)

OnVia(inst, event, handler) ==
  CallVia(inst, "on", on(Of(inst), event, handler), event, handler)

OffVia(inst, event, handler) ==
  CallVia(inst, "off", off(Of(inst), event, handler), event, handler)

TriggerActionVia(inst, actionName) ==
  CallVia(inst, "triggerAction",
          Release(triggerAction(Of(inst), actionName), actionName), actionName, NoHandler)

\* window 'resize' listener, observers of the Tutorial component
CallUpdateTargetRect == SyncCall("updateTargetRect", updateTargetRect(Engine), "")

\* the document changes under the engine: the target moves, appears, goes
DomChange(rect) ==
  /\ rect # dom
  /\ ops > 0
  /\ Commit([Engine EXCEPT !.dom = rect])
  /\ lastOp' = Op("domChange")
  /\ ops' = ops - 1
  /\ UNCHANGED inflight

\* an awaited onExit settles: the operation runs on to `await nextTick()`
ResumeOnExit(i) ==
  /\ i \in 1..Len(inflight)
  /\ inflight[i].pc = "onExit"
  /\ Commit(goToStepAssign(Of(inflight[i].inst), inflight[i].index))
  /\ inflight' = [inflight EXCEPT ![i].pc = "tick"]
  /\ lastOp' = [Op("resumeOnExit") EXCEPT !.of = inflight[i].caller,
                  !.config = inflight[i].config, !.index = inflight[i].index,
                  !.alone = inflight[i].alone, !.inst = inflight[i].inst]
  /\ UNCHANGED ops

Resolved(co, calls) ==
  [Op("resolved") EXCEPT !.of = co.caller, !.config = co.config, !.index = co.index,
                         !.alone = co.alone, !.calls = calls, !.inst = co.inst]

\* the redraw is done: measure, scroll, and call onEnter or finish
ResumeTick(i) ==
  /\ i \in 1..Len(inflight)
  /\ inflight[i].pc = "tick"
  /\ LET co == inflight[i]
         s1 == goToStepMeasure(Of(co.inst), co.config, co.index)
     IN IF stepAt(co.config, co.index).onEnter
        THEN /\ Commit([s1 EXCEPT !.called =
                           Append(@, Callback("onEnter", co.config, co.index))])
             /\ inflight' = [inflight EXCEPT ![i].pc = "onEnter",
                               ![i].calls = Append(@, Callback("onEnter", co.config, co.index))]
             /\ lastOp' = [Op("resumeTick") EXCEPT !.of = co.caller, !.config = co.config,
                             !.index = co.index, !.alone = co.alone, !.inst = co.inst]
        ELSE LET s2 == goToStepFinish(s1, co.config, co.index)
             IN /\ Commit(s2)
                /\ inflight' = RemoveAt(inflight, i)
                /\ lastOp' = [Resolved(co, co.calls) EXCEPT !.threw = s2.thrown]
  /\ UNCHANGED ops

\* an awaited onEnter settles: the operation finishes
ResumeOnEnter(i) ==
  /\ i \in 1..Len(inflight)
  /\ inflight[i].pc = "onEnter"
  /\ LET co == inflight[i]
         s1 == goToStepFinish(Of(co.inst), co.config, co.index)
     IN /\ Commit(s1)
        /\ lastOp' = [Resolved(co, co.calls) EXCEPT !.threw = s1.thrown]
  /\ inflight' = RemoveAt(inflight, i)
  /\ UNCHANGED ops

\* an awaited onExit or onEnter rejects: the operation rejects
Reject(i) ==
  /\ i \in 1..Len(inflight)
  /\ inflight[i].pc \in {"onExit", "onEnter"}
  /\ Commit(Engine)
  /\ inflight' = RemoveAt(inflight, i)
  /\ lastOp' = [Op("rejected") EXCEPT !.of = inflight[i].caller,
                  !.config = inflight[i].config, !.index = inflight[i].index,
                  !.alone = inflight[i].alone, !.inst = inflight[i].inst]
  /\ UNCHANGED ops

Due == {i \in 1..Len(timers) : timers[i].remaining = 0}

\* microtasks run before timers: no timer fires and no time passes while an
\* operation awaits nextTick()
MacrotaskTurn == \A i \in 1..Len(inflight) : inflight[i].pc # "tick"

\* the earliest-registered due timer fires
TimerFire ==
  /\ MacrotaskTurn
  /\ Due # {}
  /\ LET i == CHOOSE k \in Due : \A j \in Due : k <= j
         t == timers[i]
         s1 == [Of(t.owner) EXCEPT !.timers = RemoveAt(@, i)]
         s2 == IF t.kind = "wait" THEN actionTimeout(s1, t.handler)
               ELSE updateTargetRect(s1)
     IN /\ Commit(IF t.kind = "wait" /\ t.handler = s1.currentActionHandler
                  THEN [s2 EXCEPT !.released = TRUE] ELSE s2)
        /\ lastOp' = [Op("timer") EXCEPT !.name = t.kind, !.inst = t.owner]
  /\ UNCHANGED << inflight, ops >>

\* time passes by one settle delay
Tick ==
  /\ MacrotaskTurn
  /\ timers # << >>
  /\ Due = {}
  /\ Commit([Engine EXCEPT !.timers =
               [i \in 1..Len(timers) |->
                  [timers[i] EXCEPT !.remaining = @ - SettleDelay]]])
  /\ lastOp' = Op("tick")
  /\ UNCHANGED << inflight, ops >>

Init ==
  /\ config = NoConfig
  /\ currentStepIndex = -1
  /\ isActive = FALSE
  /\ isWaitingForAction = FALSE
  /\ targetRect = NoRect
  /\ currentActionHandler = NoHandler
  /\ eventBus = [e \in Events |-> << >>]
  /\ storage = {}
  /\ timers = << >>
  /\ inflight = << >>
  /\ dom = RectFar
  /\ window = Window(ViewportHeight, 0)
  /\ emitted = << >>
  /\ called = << >>
  /\ lastOp = Op("init")
  /\ released = FALSE
  /\ invoked = << >>
  /\ removed = {}
  /\ other = NoInstance
  /\ ops = MaxOps

Next ==
  \/ \E c \in ConfigIds : CallStart(c)
  \/ CallNext
  \/ CallPrevious
  \/ \E stepId \in StepIds : CallSkipTo(stepId)
  \/ \E index \in Indices : CallGoToStep(index)
  \/ CallClose
  \/ CallComplete
  \/ \E a \in Actions : CallTriggerAction(a)
  \/ \E id \in TutorialIds : CallResetCompletion(id)
  \/ CallUpdateTargetRect
  \/ \E rect \in Rects \cup {NoRect} : DomChange(rect)
  \/ \E i \in DOMAIN inflight : ResumeOnExit(i)
  \/ \E i \in DOMAIN inflight : ResumeTick(i)
  \/ \E i \in DOMAIN inflight : ResumeOnEnter(i)
  \/ \E i \in DOMAIN inflight : Reject(i)
  \/ TimerFire
  \/ Tick

Spec == Init /\ [][Next]_vars

\* The host serializes its calls (it awaits every operation before the next
\* call), the use the engine is written for; timers and the document still
\* act at any await.
Serial == inflight = << >>

NextSeq ==
  \/ \E c \in ConfigIds : Serial /\ CallStart(c)
  \/ Serial /\ CallNext
  \/ Serial /\ CallPrevious
  \/ \E stepId \in StepIds : Serial /\ CallSkipTo(stepId)
  \/ \E index \in Indices : Serial /\ CallGoToStep(index)
  \/ Serial /\ CallClose
  \/ Serial /\ CallComplete
  \/ \E a \in Actions : Serial /\ CallTriggerAction(a)
  \/ \E id \in TutorialIds : Serial /\ CallResetCompletion(id)
  \/ Serial /\ CallUpdateTargetRect
  \/ \E rect \in Rects \cup {NoRect} : DomChange(rect)
  \/ \E i \in DOMAIN inflight : ResumeOnExit(i)
  \/ \E i \in DOMAIN inflight : ResumeTick(i)
  \/ \E i \in DOMAIN inflight : ResumeOnEnter(i)
  \/ \E i \in DOMAIN inflight : Reject(i)
  \/ TimerFire
  \/ Tick

SpecSeq == Init /\ [][NextSeq]_vars

\* The event loop runs every due timer, lets time pass, and resumes an
\* operation awaiting nextTick(); a step callback may never settle.
SpecLive ==
  /\ Init /\ [][NextSeq]_vars
  /\ WF_vars(TimerFire)
  /\ WF_vars(Tick)
  /\ WF_vars(\E i \in DOMAIN inflight : ResumeTick(i))

\* The host only starts tours and navigates back and forth, without awaiting
\* its calls; no timer runs out and the document stays as it is.
InitNav ==
  /\ config = NoConfig
  /\ currentStepIndex = -1
  /\ isActive = FALSE
  /\ isWaitingForAction = FALSE
  /\ targetRect = NoRect
  /\ currentActionHandler = NoHandler
  /\ eventBus = [e \in Events |-> << >>]
  /\ storage = {}
  /\ timers = << >>
  /\ inflight = << >>
  /\ dom = RectFar
  /\ window = Window(ViewportHeight, 0)
  /\ emitted = << >>
  /\ called = << >>
  /\ lastOp = Op("init")
  /\ released = FALSE
  /\ invoked = << >>
  /\ removed = {}
  /\ other = NoInstance
  /\ ops = MaxNavOps

NextNav ==
  \/ \E c \in ConfigIds : CallStart(c)
  \/ CallNext
  \/ CallPrevious
  \/ \E i \in DOMAIN inflight : ResumeOnExit(i)
  \/ \E i \in DOMAIN inflight : ResumeTick(i)
  \/ \E i \in DOMAIN inflight : ResumeOnEnter(i)
  \/ \E i \in DOMAIN inflight : Reject(i)

SpecNav == InitNav /\ [][NextNav]_vars

\* The host subscribes, unsubscribes and publishes on the bus around a tour
\* that it starts and closes; no timer runs out.
InitBus ==
  /\ config = NoConfig
  /\ currentStepIndex = -1
  /\ isActive = FALSE
  /\ isWaitingForAction = FALSE
  /\ targetRect = NoRect
  /\ currentActionHandler = NoHandler
  /\ eventBus = [e \in Events |-> << >>]
  /\ storage = {}
  /\ timers = << >>
  /\ inflight = << >>
  /\ dom = RectFar
  /\ window = Window(ViewportHeight, 0)
  /\ emitted = << >>
  /\ called = << >>
  /\ lastOp = Op("init")
  /\ released = FALSE
  /\ invoked = << >>
  /\ removed = {}
  /\ other = NoInstance
  /\ ops = MaxBusOps

NextBus ==
  \/ \E e \in BusEvents : \E h \in HostHandlers : CallOn(e, h)
  \/ \E e \in BusEvents : \E h \in HostHandlers : CallOff(e, h)
  \/ \E e \in BusEvents : CallEmit(e)
  \/ \E a \in Actions : CallTriggerAction(a)
  \/ \E c \in ConfigIds : CallStart(c)
  \/ CallClose
  \/ CallComplete
  \/ \E i \in DOMAIN inflight : ResumeOnExit(i)
  \/ \E i \in DOMAIN inflight : ResumeTick(i)
  \/ \E i \in DOMAIN inflight : ResumeOnEnter(i)
  \/ \E i \in DOMAIN inflight : Reject(i)

SpecBus == InitBus /\ [][NextBus]_vars

\* Two instances of the engine in one page, each starting and ending a tour
\* gated on its first step; host code subscribes through the first instance
\* and publishes through the second; no timer runs out.
InitTwo ==
  /\ config = NoConfig
  /\ currentStepIndex = -1
  /\ isActive = FALSE
  /\ isWaitingForAction = FALSE
  /\ targetRect = NoRect
  /\ currentActionHandler = NoHandler
  /\ eventBus = [e \in Events |-> << >>]
  /\ storage = {}
  /\ timers = << >>
  /\ inflight = << >>
  /\ dom = RectFar
  /\ window = Window(ViewportHeight, 0)
  /\ emitted = << >>
  /\ called = << >>
  /\ lastOp = Op("init")
  /\ released = FALSE
  /\ invoked = << >>
  /\ removed = {}
  /\ other = NoInstance
  /\ ops = MaxTwoOps

NextTwo ==
  \/ \E inst \in Instances : \E c \in GatedConfigs : StartVia(inst, c)
  \/ \E inst \in Instances : CloseVia(inst)
  \/ \E inst \in Instances : CompleteVia(inst)
  \/ \E e \in GateEvents : \E h \in HostHandlers : OnVia(1, e, h)
  \/ \E e \in GateEvents : \E h \in HostHandlers : OffVia(1, e, h)
  \/ \E e \in GateEvents : TriggerActionVia(2, e)
  \/ \E i \in DOMAIN inflight : ResumeTick(i)

SpecTwo == InitTwo /\ [][NextTwo]_vars

\* The end of a tour with host subscribers on its two closing events: one
\* that listens, one that throws, one that calls close() from inside the
\* publication.
DoneEvents == {"tutorial:complete", "tutorial:close"}
DoneHandlers(e) == {Listener, Thrower, Closer(e)}

InitDone ==
  /\ config = NoConfig
  /\ currentStepIndex = -1
  /\ isActive = FALSE
  /\ isWaitingForAction = FALSE
  /\ targetRect = NoRect
  /\ currentActionHandler = NoHandler
  /\ eventBus = [e \in Events |-> << >>]
  /\ storage = {}
  /\ timers = << >>
  /\ inflight = << >>
  /\ dom = RectFar
  /\ window = Window(ViewportHeight, 0)
  /\ emitted = << >>
  /\ called = << >>
  /\ lastOp = Op("init")
  /\ released = FALSE
  /\ invoked = << >>
  /\ removed = {}
  /\ other = NoInstance
  /\ ops = MaxDoneOps

NextDone ==
  \/ \E e \in DoneEvents : \E h \in DoneHandlers(e) : CallOn(e, h)
  \/ \E c \in ConfigIds : CallStart(c)
  \/ CallClose
  \/ CallComplete
  \/ \E i \in DOMAIN inflight : ResumeOnExit(i)
  \/ \E i \in DOMAIN inflight : ResumeTick(i)
  \/ \E i \in DOMAIN inflight : ResumeOnEnter(i)
  \/ \E i \in DOMAIN inflight : Reject(i)

SpecDone == InitDone /\ [][NextDone]_vars

\* The scroll decision alone: a resolved target anywhere about the viewport,
\* two viewport heights (one odd, so that centres fall on half pixels), the
\* page scrolled or not, and a step of each placement.
Placements == {"top", "bottom", "left", "right", "center", ""}
RectHeights == {0, 1, 50}
\* (NoRect stands for "no element", so it is not among the rectangles)
ScrollRects == [top : (-MaxTop)..MaxTop, height : RectHeights] \ {NoRect}
ViewportHeights == {ViewportHeight, ViewportHeight \div 2 - 1}
ScrollYs == {0, MaxScrollY}

InitScroll ==
  /\ config = NoConfig
  /\ currentStepIndex = -1
  /\ isActive = FALSE
  /\ isWaitingForAction = FALSE
  /\ targetRect = NoRect
  /\ currentActionHandler = NoHandler
  /\ eventBus = [e \in Events |-> << >>]
  /\ storage = {}
  /\ timers = << >>
  /\ inflight = << >>
  /\ dom \in ScrollRects
  /\ window \in {Window(h, y) : h \in ViewportHeights, y \in ScrollYs}
  /\ emitted = << >>
  /\ called = << >>
  /\ lastOp = Op("init")
  /\ released = FALSE
  /\ invoked = << >>
  /\ removed = {}
  /\ other = NoInstance
  /\ ops = MaxScrollOps

\* lines 90-95 of goToStep for a step with the target and the placement
ScrollFor(placement) ==
  /\ ops > 0
  /\ Commit(scrollTarget(Engine, [Step("s") EXCEPT !.target = "#t",
                                                    !.placement = placement]))
  /\ lastOp' = [Op("scrollElementIntoView") EXCEPT !.name = placement]
  /\ ops' = ops - 1
  /\ UNCHANGED inflight

NextScroll == \E placement \in Placements : ScrollFor(placement)

SpecScroll == InitScroll /\ [][NextScroll]_vars

\* A host that does not await its calls and publishes actions at any moment;
\* the event loop runs every due timer, lets time pass and resumes every
\* suspended operation: each step callback settles, none rejects.
NextEager ==
  \/ \E c \in ConfigIds : CallStart(c)
  \/ CallNext
  \/ \E a \in Actions : CallTriggerAction(a)
  \/ \E i \in DOMAIN inflight : ResumeOnExit(i)
  \/ \E i \in DOMAIN inflight : ResumeTick(i)
  \/ \E i \in DOMAIN inflight : ResumeOnEnter(i)
  \/ TimerFire
  \/ Tick

SpecEager ==
  /\ Init /\ [][NextEager]_vars
  /\ WF_vars(TimerFire)
  /\ WF_vars(Tick)
  /\ WF_vars(\E i \in DOMAIN inflight : ResumeOnExit(i))
  /\ WF_vars(\E i \in DOMAIN inflight : ResumeTick(i))
  /\ WF_vars(\E i \in DOMAIN inflight : ResumeOnEnter(i))

\* ------------------------------------------------ the Tutorial component
\* The `config` prop of the component: absent (`<Tutorial />`, NoConfig
\* here) or any tour; the host binds it apart from what it passes to start.
Props == {NoConfig} \cup ConfigIds

\* `config.value?.allowClose !== false`
propAllowClose(prop) == IF prop = NoConfig THEN TRUE ELSE Configs[prop].allowClose

handleOverlayClick(s, prop) ==
  IF s.isWaitingForAction THEN s
  ELSE IF ~currentStepOf(s).blockInteractions /\ propAllowClose(prop) THEN close(s)
  ELSE s

\* the overlay forwards a background click to the component
CallOverlayClick(prop) ==
  /\ ops > 0
  /\ Commit(handleOverlayClick(Engine, prop))
  /\ inflight' = Interleave(inflight)
  /\ lastOp' = [Op("overlayClick") EXCEPT !.config = config, !.from = currentStepIndex,
                                          !.waiting = isWaitingForAction, !.prop = prop]
  /\ ops' = ops - 1

InitOverlay ==
  /\ config = NoConfig
  /\ currentStepIndex = -1
  /\ isActive = FALSE
  /\ isWaitingForAction = FALSE
  /\ targetRect = NoRect
  /\ currentActionHandler = NoHandler
  /\ eventBus = [e \in Events |-> << >>]
  /\ storage = {}
  /\ timers = << >>
  /\ inflight = << >>
  /\ dom = RectFar
  /\ window = Window(ViewportHeight, 0)
  /\ emitted = << >>
  /\ called = << >>
  /\ lastOp = Op("init")
  /\ released = FALSE
  /\ invoked = << >>
  /\ removed = {}
  /\ other = NoInstance
  /\ ops = MaxOverlayOps

\* A mounted component over a host that starts tours, publishes actions and
\* goes forward, with clicks on the dimmed background at any moment.
NextOverlay ==
  \/ \E c \in ConfigIds : CallStart(c)
  \/ CallNext
  \/ \E a \in Actions : CallTriggerAction(a)
  \/ \E prop \in Props : CallOverlayClick(prop)
  \/ \E i \in DOMAIN inflight : ResumeOnExit(i)
  \/ \E i \in DOMAIN inflight : ResumeTick(i)
  \/ \E i \in DOMAIN inflight : ResumeOnEnter(i)
  \/ TimerFire
  \/ Tick

SpecOverlay == InitOverlay /\ [][NextOverlay]_vars

\* ---------------------------------------------------------------- claims
Completed(id) == isCompleted(Engine, id)

CountOf(calls, cb, c, index) ==
  Cardinality({i \in 1..Len(calls) : calls[i] = Callback(cb, c, index)})

NavigationCalls == {"start", "next", "previous", "skipTo", "goToStep"}

\* C1: whenever close() returns, whatever came before, the tour is inactive,
\* the index is -1, there is no current step, no target rectangle and no wait.
C1_CloseResets ==
  lastOp.op = "close" =>
    /\ ~isActive
    /\ currentStepIndex = -1
    /\ currentStep = NoStep
    /\ targetRect = NoRect
    /\ ~isWaitingForAction

\* C2: on a step gated by {event: e} without a timeout the wait holds once the
\* transition has resolved, triggerAction(e) ends it at once, and nothing but
\* triggerAction(e), leaving the step or closing the tour ends it.
C2_WaitsUntilTriggered ==
  [][ LET gate == currentStep.waitForAction
      IN /\ ( /\ lastOp'.op = "resolved"
              /\ stepAt(lastOp'.config, lastOp'.index).waitForAction.declared )
            => isWaitingForAction'
         /\ ( /\ gate.declared /\ ~gate.hasTimeout
              /\ isWaitingForAction
              /\ currentActionHandler # NoHandler
              /\ currentActionHandler.event = gate.event
              /\ \A i \in 1..Len(timers) : timers[i].handler # currentActionHandler )
            => /\ (lastOp'.op = "triggerAction" /\ lastOp'.name = gate.event)
                    => ~isWaitingForAction'
               /\ ~isWaitingForAction'
                    => \/ lastOp'.op = "triggerAction" /\ lastOp'.name = gate.event
                       \/ lastOp'.op \in {"close", "complete", "resumeOnExit"}
                       \/ lastOp'.op \in NavigationCalls /\ ~lastOp'.returned
    ]_vars

\* C3: from the moment the index is a step that declares waitForAction until its
\* event is published or its own timeout elapses, forward navigation is off.
C3_GateBlocksForward ==
  (currentStep.waitForAction.declared /\ ~released) => ~canGoNext

C5_StartResolved ==
  ( /\ lastOp.op = "resolved" /\ lastOp.of = "start" /\ lastOp.alone
    /\ Len(stepsOf(lastOp.config)) >= 1 )
  => /\ isActive
     /\ currentStepIndex = 0
     /\ config = lastOp.config
     /\ currentStep = Configs[lastOp.config].steps[1]
     /\ totalSteps = Len(Configs[lastOp.config].steps)
     /\ CountOf(lastOp.calls, "onEnter", lastOp.config, 0)
          = (IF Configs[lastOp.config].steps[1].onEnter THEN 1 ELSE 0)

C5_Witness ==
  /\ lastOp.op = "resolved" /\ lastOp.of = "start" /\ lastOp.alone
  /\ lastOp.config # NoConfig
  /\ stepAt(lastOp.config, 0).onEnter

\* C6: an inactive engine has index -1 and no current step, in every state.
C6_InactiveHasNoStep ==
  ~isActive => (currentStepIndex = -1 /\ currentStep = NoStep)

\* C7: canGoNext is exactly "not waiting and not on the last step" and
\* canGoPrevious exactly "index > 0"; so a waiting step never allows next, and
\* the last step of a tour of two or more allows previous but not next.
C7_NavigationFlags ==
  /\ canGoNext = (~isWaitingForAction /\ currentStepIndex < totalSteps - 1)
  /\ canGoPrevious = (currentStepIndex > 0)
  /\ isWaitingForAction => ~canGoNext
  /\ (totalSteps >= 2 /\ currentStepIndex = totalSteps - 1)
       => (~canGoNext /\ canGoPrevious)

C7_Witness ==
  /\ isActive /\ isWaitingForAction
  /\ totalSteps >= 2 /\ currentStepIndex = totalSteps - 1

\* a navigation call that did nothing
NavNoOp ==
  /\ UNCHANGED << config, currentStepIndex, isActive, isWaitingForAction, targetRect,
                  currentActionHandler, eventBus, timers >>
  /\ Len(inflight') = Len(inflight)
  /\ emitted' = << >>
  /\ called' = << >>

\* a navigation call that began a transition to step k
Begun(k) ==
  /\ ~lastOp'.returned
  /\ Len(inflight') = Len(inflight) + 1
  /\ inflight'[Len(inflight')].index = k
  /\ inflight'[Len(inflight')].config = config

\* C8: previous() on step 0 and next() on the last step change nothing, run no
\* callback and publish nothing; otherwise next() (when not gated) goes to
\* index + 1 and previous() to index - 1.
C8_NextPrevious ==
  [][ /\ (lastOp'.op = "previous" /\ currentStepIndex = 0) => NavNoOp
      /\ (lastOp'.op = "next" /\ currentStepIndex = totalSteps - 1) => NavNoOp
      /\ (lastOp'.op = "next" /\ canGoNext) => Begun(currentStepIndex + 1)
      /\ (lastOp'.op = "previous" /\ config # NoConfig /\ currentStepIndex > 0)
           => Begun(currentStepIndex - 1)
      /\ (lastOp'.op = "resolved" /\ lastOp'.alone)
           => currentStepIndex' = lastOp'.index
    ]_vars

C10_Completion ==
  [][ \A id \in TutorialIds :
        Completed(id)' =
          IF lastOp'.op = "complete" /\ config # NoConfig /\ Configs[config].id = id
          THEN TRUE
          ELSE IF lastOp'.op = "resetCompletion" /\ lastOp'.name = id
          THEN FALSE
          ELSE Completed(id)
    ]_vars

C10_Witness ==
  /\ lastOp.op = "complete" /\ lastOp.config # NoConfig
  /\ Completed(Configs[lastOp.config].id)

Published(pubs, event) == \E i \in 1..Len(pubs) : pubs[i].event = event

\* C11: start(config2) on an active tour config1 first tears config1 down as
\* close() does: its wait subscription leaves the bus, tutorial:close is
\* published and config1.onClose is invoked.
C11_StartTearsDown ==
  [][ (lastOp'.op = "start" /\ isActive /\ config # NoConfig)
        => /\ Published(emitted', "tutorial:close")
           /\ Configs[config].onClose
                => \E i \in 1..Len(called') : called'[i] = Callback("onClose", config, -1)
           /\ currentActionHandler # NoHandler
                => ~Registered(eventBus', currentActionHandler.event, currentActionHandler)
    ]_vars

\* C12: start of a tour without steps is refused and leaves the engine idle,
\* with nothing published; the engine is never active without a current step.
C12_EmptyConfigRejected ==
  /\ \A c \in ConfigIds :
        (lastOp.op = "start" /\ lastOp.name = Configs[c].id /\ Configs[c].steps = << >>)
          => /\ ~isActive /\ currentStepIndex = -1 /\ config = NoConfig
             /\ ~Published(emitted, "tutorial:start")
  /\ ~(isActive /\ currentStep = NoStep)

\* C13: progress is ((index + 1) / totalSteps) * 100, 0 without steps, and so
\* lies in 0..100 while a tour is active.
C13_ProgressInRange ==
  /\ progress = (IF totalSteps = 0 THEN [num |-> 0, den |-> 1]
                 ELSE [num |-> (currentStepIndex + 1) * 100, den |-> totalSteps])
  /\ isActive => (0 <= progress.num /\ progress.num <= 100 * progress.den)

Publishes == {"emit", "triggerAction"}

\* the handlers the last action invoked with the data of its own publication
InvokedFor(inv, event) ==
  LET hits == SelectSeq(inv, LAMBDA x : x.data = Publication(event, "", 0, -1))
  IN [i \in 1..Len(hits) |-> hits[i].handler]

Times(seq, x) == Cardinality({i \in 1..Len(seq) : seq[i] = x})

\* C14: a host handler removed with off(event, h) and not registered again is
\* invoked by no later publication of that event, whatever happened between.
C14_RemovedNotInvoked ==
  [][ \A i \in 1..Len(invoked') :
        Subscription(invoked'[i].data.event, invoked'[i].handler) \notin removed
    ]_vars

C14_Witness ==
  /\ lastOp.op \in Publishes /\ invoked # << >>
  /\ \E h \in HostHandlers :
        /\ Subscription(lastOp.name, h) \in removed
        /\ Times(InvokedFor(invoked, lastOp.name), h) = 0

\* C15: a publication invokes every handler registered for its event even when
\* one of them throws, and close() and complete() on a tour that is held
\* finish their reset.
C15_FailuresIsolated ==
  [][ /\ lastOp'.op \in Publishes
           => \A i \in 1..Len(eventBus[lastOp'.name]) :
                Times(InvokedFor(invoked', lastOp'.name), eventBus[lastOp'.name][i]) >= 1
      /\ (lastOp'.op \in {"close", "complete"} /\ config # NoConfig)
           => (~isActive' /\ config' = NoConfig /\ currentStepIndex' = -1)
    ]_vars

\* C16: a publication invokes exactly the handlers registered for its event
\* when it is called, each once and in the order of registration, a handler
\* that unsubscribes itself meanwhile included.
C16_DispatchInOrder ==
  [][ lastOp'.op \in Publishes
        => InvokedFor(invoked', lastOp'.name) = eventBus[lastOp'.name]
    ]_vars

\* C17: on for a handler already registered and off for one not registered
\* change nothing; a handler is in the set of an event at most once, one off
\* removes it, and a publication that is not cut short invokes it once.
C17_SetSemantics ==
  [][ /\ (lastOp'.op = "on" /\ lastOp'.registered) => eventBus' = eventBus
      /\ (lastOp'.op = "off" /\ ~lastOp'.registered) => eventBus' = eventBus
      /\ lastOp'.op = "off"
           => ~Registered(eventBus', lastOp'.name, lastOp'.handler)
      /\ \A e \in Events : \A h \in HostHandlers : Times(eventBus'[e], h) <= 1
      /\ lastOp'.op \in Publishes
           => \A h \in HostHandlers :
                /\ Times(InvokedFor(invoked', lastOp'.name), h) <= 1
                /\ (Registered(eventBus, lastOp'.name, h) /\ ~lastOp'.threw)
                     => Times(InvokedFor(invoked', lastOp'.name), h) = 1
    ]_vars

C17_Witness ==
  /\ lastOp.op = "on" /\ lastOp.registered
  /\ Times(eventBus[lastOp.name], lastOp.handler) = 1
  /\ Len(eventBus[lastOp.name]) >= 2

\* instance inst waits for event in state s
WaitingOn(s, event) ==
  /\ s.isWaitingForAction
  /\ currentStepOf(s).waitForAction.declared
  /\ currentStepOf(s).waitForAction.event = event

\* C18: the bus is shared by the instances: a publication through either
\* instance invokes every handler registered for the event, whichever instance
\* registered it, so one triggerAction(e) ends the wait of every instance
\* waiting on e; and no start, close or complete removes a host subscription.
C18_SharedBus ==
  [][ /\ lastOp'.op = "triggerAction"
           => /\ \A i \in 1..Len(eventBus[lastOp'.name]) :
                   Times(InvokedFor(invoked', lastOp'.name), eventBus[lastOp'.name][i]) >= 1
              /\ WaitingOn(Engine, lastOp'.name) => ~isWaitingForAction'
              /\ WaitingOn(Swap(Engine), lastOp'.name) => ~other'.isWaitingForAction
      /\ lastOp'.op \in {"start", "close", "complete", "resolved", "resumeTick"}
           => \A e \in Events : \A h \in HostHandlers :
                Registered(eventBus, e, h) => Registered(eventBus', e, h)
    ]_vars

\* the timer that fires next
FiringTimer == timers[CHOOSE k \in Due : \A j \in Due : k <= j]

\* C19: the timeout of a wait that is no longer the engine's wait (resolved,
\* superseded or torn down) changes neither isWaitingForAction nor the
\* engine's record of the current subscription when it fires.
C19_StaleTimeoutIgnored ==
  [][ ( /\ lastOp'.op = "timer" /\ lastOp'.name = "wait"
        /\ currentActionHandler # NoHandler
        /\ FiringTimer.handler # currentActionHandler )
        => UNCHANGED << isWaitingForAction, currentActionHandler >>
    ]_vars

EngineHandlersIn(bus) == {h \in WaitHandlersIn(bus) : h.kind = "wait"}

\* C20: at most one wait subscriber of the engine is in the bus, and one that
\* is there is the recorded currentActionHandler and waits for the event of
\* the current step.
C20_OneWaitSubscriber ==
  /\ Cardinality(EngineHandlersIn(eventBus)) <= 1
  /\ \A h \in EngineHandlersIn(eventBus) :
        /\ h = currentActionHandler
        /\ currentStep.waitForAction.declared
        /\ currentStep.waitForAction.event = h.event

\* C21: when close() or complete() has returned, no wait subscriber of the
\* engine is left in the bus, whatever came before.
C21_NoSubscriberAfterClose ==
  lastOp.op \in {"close", "complete"} => EngineHandlersIn(eventBus) = {}

\* C22: triggerAction(name) changes neither the waiting flag, the index nor
\* the recorded subscription and publishes no tutorial:action-completed
\* unless the current step is waiting on that name.
C22_TriggerOnlyWhenWaiting ==
  [][ (lastOp'.op = "triggerAction" /\ ~WaitingOn(Engine, lastOp'.name))
        => /\ UNCHANGED << isWaitingForAction, currentStepIndex, currentActionHandler >>
           /\ ~Published(emitted', "tutorial:action-completed")
    ]_vars

Resumptions == {"resumeOnExit", "resumeTick", "resolved"}

\* C23: a goToStep that resumes after close() has made the engine idle sets
\* neither the index nor the waiting flag, registers no subscriber and no
\* timer and publishes no tutorial:step-change.
C23_CloseCancels ==
  [][ (lastOp'.op \in Resumptions /\ config = NoConfig /\ ~isActive)
        => /\ UNCHANGED << currentStepIndex, isWaitingForAction, currentActionHandler,
                           eventBus, timers, isActive, config >>
           /\ ~Published(emitted', "tutorial:step-change")
    ]_vars

\* the operations suspended on the onExit of the step (c, from) on their way
\* to the step at index
AwaitingOnExitOf(c, from, index) ==
  {i \in 1..Len(inflight) :
     /\ inflight[i].pc = "onExit"
     /\ inflight[i].index = index
     /\ inflight[i].calls # << >>
     /\ inflight[i].calls[Len(inflight[i].calls)] = Callback("onExit", c, from)}

\* C24: every tutorial:step-change carries the index that is currentStepIndex
\* and the step that is currentStep when it is published, and a navigation
\* call other than start invokes the onExit of the step being left only if no earlier call is
\* already awaiting it for the same departure (same step left, same target).
C24_SequentialTransitions ==
  [][ /\ \A i \in 1..Len(emitted') :
           emitted'[i].event = "tutorial:step-change"
             => /\ emitted'[i].index = currentStepIndex'
                /\ emitted'[i].config = config'
      /\ lastOp'.op \in NavigationCalls \ {"start"}
           => \A i \in 1..Len(called') :
                called'[i].cb = "onExit"
                  => AwaitingOnExitOf(called'[i].config, called'[i].index,
                                      lastOp'.index) = {}
    ]_vars

\* C25: when a navigation operation that ran alone is rejected by its onExit
\* or onEnter, the rejection changes no engine state and no wait subscriber
\* of the engine (that of the step being left) is in the bus.
C25_FailedNavigationDeregistered ==
  [][ (lastOp'.op = "rejected" /\ lastOp'.alone)
        => /\ UNCHANGED << config, currentStepIndex, isActive, isWaitingForAction,
                           currentActionHandler, eventBus, timers >>
           /\ EngineHandlersIn(eventBus') = {}
    ]_vars

\* C26: while an active tour is waiting, the current step declares a wait and
\* a subscriber of the engine for its event is registered in the bus.
C26_WaitIsClearable ==
  (isActive /\ isWaitingForAction)
    => /\ currentStep.waitForAction.declared
       /\ \E h \in EngineHandlersIn(eventBus) :
             /\ h.event = currentStep.waitForAction.event
             /\ Registered(eventBus, h.event, h)

\* the step a suspended or finished operation of the last action is going to
TargetStep(o) == stepAt(o.config, o.index)

\* goToStep up to its first await, run with no other operation in flight: the
\* recorded subscription is gone, nothing is published, and while onExit is
\* awaited the index and the waiting flag still have their old values
C27_AtCall ==
  (lastOp'.op \in NavigationCalls /\ ~lastOp'.returned /\ inflight = << >>)
    => /\ currentActionHandler' = NoHandler
       /\ currentActionHandler # NoHandler
            => ~Registered(eventBus', currentActionHandler.event, currentActionHandler)
       /\ ~Published(emitted', "tutorial:step-change")
       /\ targetRect' = targetRect
       /\ IF inflight'[1].pc = "onExit"
          THEN /\ currentStepIndex' = IF lastOp'.op = "start" THEN 0 ELSE currentStepIndex
               /\ isWaitingForAction' = isWaitingForAction
               /\ called' = << Callback("onExit", config', currentStepIndex') >>
          ELSE /\ inflight'[1].pc = "tick"
               /\ currentStepIndex' = lastOp'.index
               /\ ~isWaitingForAction'
               /\ called' = << >>

\* onExit has settled: the index is assigned and the flag cleared, the
\* rectangle is not recomputed before the redraw
C27_AfterOnExit ==
  (lastOp'.op = "resumeOnExit" /\ lastOp'.alone)
    => /\ currentStepIndex' = lastOp'.index
       /\ ~isWaitingForAction'
       /\ targetRect' = targetRect
       /\ emitted' = << >> /\ called' = << >>
       /\ UNCHANGED << eventBus, currentActionHandler >>

\* the redraw is done and onEnter is awaited: the rectangle is recomputed, the
\* gate is not registered yet, nothing is published
C27_AfterRedraw ==
  (lastOp'.op = "resumeTick" /\ lastOp'.alone)
    => /\ targetRect' = querySelector(Engine, TargetStep(lastOp').target)
       /\ called' = << Callback("onEnter", lastOp'.config, lastOp'.index) >>
       /\ currentStepIndex' = lastOp'.index
       /\ ~isWaitingForAction'
       /\ emitted' = << >>
       /\ UNCHANGED << eventBus, currentActionHandler >>

\* the operation finishes: onEnter was awaited if declared, the gate is
\* registered if declared, and tutorial:step-change with the new step and
\* index is the one publication
C27_AtEnd ==
  (lastOp'.op = "resolved" /\ lastOp'.alone)
    => LET step == TargetStep(lastOp')
           gate == step.waitForAction
       IN /\ step.onEnter
               => CountOf(lastOp'.calls, "onEnter", lastOp'.config, lastOp'.index) = 1
          /\ currentStepIndex' = lastOp'.index
          /\ isWaitingForAction' = gate.declared
          /\ IF gate.declared
             THEN /\ currentActionHandler' # NoHandler
                  /\ currentActionHandler'.event = gate.event
                  /\ Registered(eventBus', gate.event, currentActionHandler')
                  /\ ~Registered(eventBus, gate.event, currentActionHandler')
             ELSE UNCHANGED << eventBus, currentActionHandler >>
          /\ emitted' = << Publication("tutorial:step-change", "", lastOp'.config,
                                       lastOp'.index) >>

\* C27: within one goToStep the effects come in the order of the code:
\* deregistration, onExit (index still old), assignment of the index and
\* reset of the flag, recomputation of the rectangle after the redraw,
\* onEnter, registration of the gate, publication of tutorial:step-change;
\* the publication is made by no step but the last.
C27_GoToStepOrder ==
  [][ /\ C27_AtCall
      /\ C27_AfterOnExit
      /\ C27_AfterRedraw
      /\ C27_AtEnd
      /\ Published(emitted', "tutorial:step-change") => lastOp'.op = "resolved"
    ]_vars

C27_Witness ==
  /\ lastOp.op = "resolved" /\ lastOp.alone /\ lastOp.of = "goToStep"
  /\ lastOp.index = 2 /\ currentStepIndex = 2
  /\ CountOf(lastOp.calls, "onExit", lastOp.config, 0) = 1
  /\ CountOf(lastOp.calls, "onEnter", lastOp.config, 2) = 1
  /\ isWaitingForAction
  /\ Registered(eventBus, "e", currentActionHandler)
  /\ Published(emitted, "tutorial:step-change")

\* C28: start invokes the onExit callback of no step: steps[0].onEnter is the
\* first step callback it runs.
C28_StartRunsNoOnExit ==
  [][ lastOp'.op = "start"
        => \A i \in 1..Len(called') : called'[i].cb # "onExit"
    ]_vars

\* the publications of tutorial:action-completed that name the event
Completions(pubs, event) ==
  Cardinality({i \in 1..Len(pubs) :
                 pubs[i] = Publication("tutorial:action-completed", event, 0, -1)})

\* C29: triggerAction(event) publishes tutorial:action-completed for the event
\* exactly once when the current step is waiting on it and never otherwise
\* (timed out, left, or triggered before); the timeout of a wait whose
\* subscriber the event has already removed changes no engine state.
C29_FirstWins ==
  [][ /\ lastOp'.op = "triggerAction"
           => Completions(emitted', lastOp'.name)
                = IF WaitingOn(Engine, lastOp'.name) THEN 1 ELSE 0
      /\ ( /\ lastOp'.op = "timer" /\ lastOp'.name = "wait"
           /\ ~Registered(eventBus, FiringTimer.handler.event, FiringTimer.handler) )
           => UNCHANGED << config, currentStepIndex, isActive, isWaitingForAction,
                           targetRect, currentActionHandler, eventBus >>
    ]_vars

\* C30: goToStep(index) without a configuration or with an index that names
\* no step changes no engine state, leaves the bus and the timers as they
\* are, runs no step callback, publishes nothing and suspends nothing.
C30_InvalidGoToStepNoOp ==
  [][ ( /\ lastOp'.op = "goToStep"
        /\ (config = NoConfig \/ lastOp'.index \notin 0..(totalSteps - 1)) )
        => /\ UNCHANGED << config, currentStepIndex, isActive, isWaitingForAction,
                           targetRect, currentActionHandler, eventBus, timers,
                           storage >>
           /\ emitted' = << >> /\ called' = << >>
           /\ lastOp'.returned
           /\ Len(inflight') = Len(inflight)
    ]_vars

C30_Witness ==
  /\ lastOp.op = "goToStep" /\ lastOp.returned
  /\ config # NoConfig /\ lastOp.index = totalSteps
  /\ isWaitingForAction
  /\ currentActionHandler # NoHandler
  /\ Registered(eventBus, currentStep.waitForAction.event, currentActionHandler)

OnCompleteOf(c) ==
  IF Configs[c].onComplete THEN << Callback("onComplete", c, -1) >> ELSE << >>

OnCloseOf(c) ==
  IF Configs[c].onClose THEN << Callback("onClose", c, -1) >> ELSE << >>

CompletePublished == Publication("tutorial:complete", "", 0, -1)
ClosePublished == Publication("tutorial:close", "", 0, -1)

\* no subscriber invoked by the last action called back into the engine
NoReentry(inv) == \A i \in 1..Len(inv) : inv[i].handler.kind # "closes"

\* the event whose subscriber threw in the last action
ThrownFor(inv) == inv[Len(inv)].data.event

NoThrower(inv) == \A i \in 1..Len(inv) : inv[i].handler.kind # "throws"

\* the subscribers that called back into the engine were invoked for `event`
ReentryOnlyFrom(inv, event) ==
  \A i \in 1..Len(inv) : inv[i].handler.kind = "closes" => inv[i].data.event = event

\* C37: a close() or complete() on an active tour during which no subscriber
\* throws publishes tutorial:close once, invokes onClose once if declared,
\* and returns with the state reset, also when a subscriber of tutorial:close
\* calls close() from inside the publication.
C37_CloseOnce ==
  [][ ( /\ lastOp'.op \in {"close", "complete"}
        /\ isActive /\ config # NoConfig
        /\ NoThrower(invoked')
        /\ ReentryOnlyFrom(invoked', "tutorial:close") )
        => /\ Times(emitted', ClosePublished) = 1
           /\ SelectSeq(called', LAMBDA x : x.cb = "onClose") = OnCloseOf(config)
           /\ ~lastOp'.threw
           /\ ~isActive' /\ config' = NoConfig /\ currentStepIndex' = -1
    ]_vars

\* C32: previous() at an index above 0 of an active waiting tour begins the
\* transition to index - 1 and leaves no wait subscriber of the engine
\* registered; when the transition finishes, isWaitingForAction is the gate
\* of the step arrived at and nothing else.
C32_PreviousNotGated ==
  [][ /\ ( /\ lastOp'.op = "previous"
           /\ isActive /\ config # NoConfig
           /\ currentStepIndex > 0 /\ isWaitingForAction )
           => /\ Begun(currentStepIndex - 1)
              /\ currentActionHandler' = NoHandler
              /\ EngineHandlersIn(eventBus') = {}
      /\ (lastOp'.op = "resolved" /\ lastOp'.of = "goToStep" /\ lastOp'.alone)
           => isWaitingForAction' = TargetStep(lastOp').waitForAction.declared
    ]_vars

\* the position of the first step of tour c with the id, if i is it
FirstWithId(c, i, id) ==
  /\ stepAt(c, i).id = id
  /\ \A j \in 0..(i - 1) : stepAt(c, j).id # id

\* C33: skipTo(id) on an active tour begins the transition to the step with
\* that id also when the id is not in the current step's allowSkipTo and also
\* when the current step is waiting, and the transition arrives there.
C33_SkipToUnrestricted ==
  [][ /\ \A i \in 0..(totalSteps - 1) :
           ( /\ lastOp'.op = "skipTo" /\ isActive /\ config # NoConfig
             /\ FirstWithId(config, i, lastOp'.name)
             /\ (lastOp'.name \notin currentStep.allowSkipTo \/ isWaitingForAction) )
           => Begun(i)
      /\ (lastOp'.op = "resolved" /\ lastOp'.of = "goToStep" /\ lastOp'.alone)
           => currentStepIndex' = lastOp'.index
    ]_vars

C33_Witness ==
  /\ lastOp.op = "skipTo" /\ ~lastOp.returned /\ lastOp.waiting
  /\ lastOp.config # NoConfig
  /\ lastOp.index > lastOp.from /\ lastOp.from >= 0
  /\ stepAt(lastOp.config, lastOp.from).waitForAction.declared
  /\ stepAt(lastOp.config, lastOp.from).allowSkipTo # {}
  /\ lastOp.name \notin stepAt(lastOp.config, lastOp.from).allowSkipTo
  /\ currentStepIndex = lastOp.index

\* the deferred re-measures that are scheduled
Remeasures(ts) == Cardinality({i \in 1..Len(ts) : ts[i].kind = "rect"})

\* the last action ran goToStep from the redraw on
AfterRedraw(o) ==
  \/ o.op = "resumeTick"
  \/ o.op = "resolved" /\ ~TargetStep(o).onEnter

\* C34: updateTargetRect() in any state changes nothing but targetRect, which
\* becomes the bounding box of the current step's target, or null when the
\* engine is inactive, there is no current step, the step has no target or
\* the selector matches nothing; a second call changes nothing more.  A
\* transition into a step whose target does not resolve goes on: it throws
\* nothing, caches null, schedules no re-measure, and every transition that
\* finishes publishes tutorial:step-change.
C34_UpdateTargetRect ==
  [][ /\ lastOp'.op = "updateTargetRect"
           => /\ targetRect' = IF \/ ~isActive \/ currentStep = NoStep
                                  \/ currentStep.target = "" \/ dom = NoRect
                               THEN NoRect ELSE dom
              /\ UNCHANGED << config, currentStepIndex, isActive, isWaitingForAction,
                              currentActionHandler, eventBus, timers, storage, dom >>
              /\ emitted' = << >> /\ called' = << >> /\ ~lastOp'.threw
              /\ updateTargetRect(Engine)'.targetRect = targetRect'
      /\ (AfterRedraw(lastOp') /\ TargetStep(lastOp').target # "" /\ dom = NoRect)
           => /\ targetRect' = NoRect
              /\ Remeasures(timers') = Remeasures(timers)
              /\ ~lastOp'.threw
      /\ lastOp'.op = "resolved" => Published(emitted', "tutorial:step-change")
    ]_vars

C34_Witness ==
  /\ lastOp.op = "updateTargetRect"
  /\ isActive /\ currentStep.target # "" /\ dom = NoRect
  /\ targetRect = NoRect
  /\ inflight # << >>

\* twice the distance the requested scroll moves the page
Moved2(req, w) == req.top2 - 2 * w.scrollY

\* C35: for every resolved rectangle, viewport height and scroll offset, a
\* 'top' step scrolls iff rect.top < 150 and a 'bottom' step (or one without
\* placement) iff rect.bottom > innerHeight - 150, to the offset that makes
\* that gap 150; 'left' and 'right' scroll iff the centre of the rectangle is
\* more than 100 from the centre of the viewport, to the offset that centres
\* it; 'center' never scrolls; a re-measure after the settle delay is
\* scheduled iff a scroll was requested.  (Lengths doubled.)
C35_ScrollPolicy ==
  [][ lastOp'.op = "scrollElementIntoView"
        => LET p == IF lastOp'.name = "" THEN "bottom" ELSE lastOp'.name
               req == window'.scrollTo
               bottom == dom.top + dom.height
               centre2 == 2 * dom.top + dom.height
           IN /\ p = "top"
                   => /\ req.issued = (dom.top < 150)
                      /\ req.issued => 2 * dom.top - Moved2(req, window) = 2 * 150
              /\ p = "bottom"
                   => /\ req.issued = (bottom > window.innerHeight - 150)
                      /\ req.issued
                           => 2 * bottom - Moved2(req, window)
                                = 2 * (window.innerHeight - 150)
              /\ p \in {"left", "right"}
                   => /\ req.issued
                           = (Abs(centre2 - window.innerHeight) > 2 * 100)
                      /\ req.issued => centre2 - Moved2(req, window) = window.innerHeight
              /\ p = "center" => ~req.issued
              /\ Remeasures(timers')
                   = Remeasures(timers) + IF req.issued THEN 1 ELSE 0
              /\ req.issued => timers'[Len(timers')] = RectTimer(SettleDelay)
              /\ UNCHANGED << dom, targetRect, currentStepIndex, isWaitingForAction >>
    ]_vars

C35_Witness ==
  /\ lastOp.op = "scrollElementIntoView" /\ lastOp.name = "left"
  /\ window.scrollTo.issued
  /\ window.scrollTo.top2 % 2 = 1
  /\ window.scrollY = MaxScrollY
  /\ Remeasures(timers) = 1

\* the event of the current step's gate has just been published by the host
Triggered ==
  /\ lastOp.op = "triggerAction" /\ isActive /\ released
  /\ currentStep.waitForAction.declared
  /\ currentStep.waitForAction.event = lastOp.name

\* nothing is suspended, and the triggered step is not waiting or was left
GateSettled ==
  /\ inflight = << >>
  /\ ~isWaitingForAction \/ ~released \/ ~isActive

\* C36: once the event of the current step's gate has been triggered, at any
\* moment after the index became that step, the engine comes to rest with the
\* step not waiting (or left), without another trigger.
C36_ActionNotLost == Triggered ~> GateSettled

\* C38: a background click handled by the Tutorial component changes the
\* engine state (closes the tour) only when the engine is not waiting for
\* an action, the current step does not set blockInteractions and the
\* allowClose of the tour the engine runs is not false; a click in any
\* other case leaves the engine state as it was.  (Stated for a click
\* while no operation of the engine is suspended.)
ClickMayClose ==
  /\ ~isWaitingForAction
  /\ ~currentStep.blockInteractions
  /\ config # NoConfig => Configs[config].allowClose

C38_OverlayClick ==
  [][lastOp'.op = "overlayClick" /\ inflight = << >> /\ ~ClickMayClose
       => UNCHANGED << config, currentStepIndex, isActive, isWaitingForAction,
                       targetRect, currentActionHandler, eventBus, storage,
                       timers >>]_vars

====
